---- MODULE Spec2Model ----
(***************************************************************************)
(* A model of the data access layer of parse-server:                       *)
(*   - DatabaseController (src/src/Controllers/DatabaseController.js):     *)
(*     the schema promise (loadSchema, deleteEverything) and the four      *)
(*     operations find, create, update and destroy;                        *)
(*   - MongoCollection (src/unnamed/part_000): find with the geo-index     *)
(*     retry.                                                              *)
(* Every promise callback (.then / .catch) is one atomic step; the store   *)
(* answers at any later moment.                                            *)
(***************************************************************************)
EXTENDS Integers, Sequences, FiniteSets, TLC

VARIABLES
  schemaPromise,  \* this.schemaPromise: 0 (null or deleted) or the id of a load promise
  loadState,      \* per load promise: "none", "coll", "reading", "done"
  loadValue,      \* per load promise: the schema Schema.load resolved with (-1: not yet)
  storeSchema,    \* the schema now stored in the _SCHEMA collection (a version number)
  callers,        \* per loadSchema call: where the call stands
  wipes,          \* number of deleteEverything calls so far
  mc,             \* one MongoCollection.find call: where it stands, its arguments, its outcome
  rawFinds,       \* the underlying finds that call has issued, in order
  indexes,        \* the indexes that call has asked the store to create, in order
  storeErrors,    \* the errors the store has answered that call with, in order
  op,             \* one find / create / update / destroy call: its arguments and where it stands
  db,             \* the documents of the class's collection
  joins,          \* the rows of the join collections
  perms,          \* the class-level permissions of the schema, per operation
  adapterCalls,   \* the store calls the operation has issued, in order
  rq,             \* one rewriting of a query tree by find: the tree and where it stands
  joinColl,       \* the documents of one join collection, in the store's order
  relCalls,       \* the addRelation / removeRelation calls made on it
  relLog,         \* per edge: the last call the store completed on it
  proj            \* one mapping of find's results to objects

schemaVars == <<schemaPromise, loadState, loadValue, storeSchema, callers, wipes>>

collVars == <<mc, rawFinds, indexes, storeErrors>>

opVars == <<op, db, joins, perms, adapterCalls>>

managerVars == <<rq, joinColl, relCalls, relLog, proj>>

vars == <<schemaPromise, loadState, loadValue, storeSchema, callers, wipes,
          mc, rawFinds, indexes, storeErrors,
          op, db, joins, perms, adapterCalls,
          rq, joinColl, relCalls, relLog, proj>>

(***************************************************************************)
(* Bounds.                                                                 *)
(***************************************************************************)
MaxCallers == 2
MaxLoads == 3
MaxVer == 1
MaxWipes == 1
MaxField == 2

Callers == 1..MaxCallers
Loads == 1..MaxLoads
Versions == 0..MaxVer

(***************************************************************************)
(* The schema promise.                                                     *)
(* A schema is modelled by its version v: it knows the keys 1..v.  An      *)
(* acceptor built from hasKeys is the number of keys it needs; the default *)
(* acceptor returnsTrue needs none.                                        *)
(***************************************************************************)
returnsTrue == 0

acceptor(need, schema) == schema >= need

NoCaller == [pc |-> "idle", need |-> 0, awaits |-> 0, given |-> -1,
             started |-> {}, result |-> -1]

Created == {p \in Loads : loadState[p] # "none"}

FreshLoad == Cardinality(Created) + 1

\* this.collection('_SCHEMA').then(coll => { delete this.schemaPromise;
\* return Schema.load(coll); }): a new promise, waiting for the collection handle.
StartLoad(p) ==
  /\ p \in Loads
  /\ loadState[p] = "none"
  /\ loadState' = [loadState EXCEPT ![p] = "coll"]
  /\ schemaPromise' = p

\* loadSchema(acceptor), the synchronous part of the call.
LoadSchemaCall(c, need) ==
  /\ callers[c].pc = "idle"
  /\ IF schemaPromise = 0
       THEN /\ StartLoad(FreshLoad)
            /\ callers' = [callers EXCEPT ![c] =
                 [@ EXCEPT !.pc = "direct", !.need = need, !.awaits = FreshLoad,
                           !.started = {FreshLoad}]]
       ELSE /\ callers' = [callers EXCEPT ![c] =
                 [@ EXCEPT !.pc = "then", !.need = need, !.awaits = schemaPromise]]
            /\ UNCHANGED <<schemaPromise, loadState>>
  /\ UNCHANGED <<loadValue, storeSchema, wipes>>

loadSchema(c) == \E need \in Versions : LoadSchemaCall(c, need)

\* The collection handle arrives: the callback deletes this.schemaPromise
\* (whichever promise it holds by now) and calls Schema.load(coll).
CollectionObtained(p) ==
  /\ loadState[p] = "coll"
  /\ loadState' = [loadState EXCEPT ![p] = "reading"]
  /\ schemaPromise' = 0
  /\ UNCHANGED <<loadValue, storeSchema, callers, wipes>>

\* Schema.load(coll) resolves with the schema the store holds.
SchemaLoaded(p) ==
  /\ loadState[p] = "reading"
  /\ loadState' = [loadState EXCEPT ![p] = "done"]
  /\ loadValue' = [loadValue EXCEPT ![p] = storeSchema]
  /\ UNCHANGED <<schemaPromise, storeSchema, callers, wipes>>

\* A resolution that applies the acceptor again to the reloaded schema and
\* reloads until it is accepted.
ResolveDirectRetrying(c) ==
  /\ callers[c].pc = "direct"
  /\ loadState[callers[c].awaits] = "done"
  /\ LET schema == loadValue[callers[c].awaits] IN
       IF callers[c].given = -1 \/ acceptor(callers[c].need, schema)
         THEN /\ callers' = [callers EXCEPT ![c] =
                   [@ EXCEPT !.pc = "returned", !.result = schema]]
              /\ UNCHANGED <<schemaPromise, loadState>>
         ELSE /\ StartLoad(FreshLoad)
              /\ callers' = [callers EXCEPT ![c] =
                   [@ EXCEPT !.awaits = FreshLoad, !.started = @ \cup {FreshLoad}]]
  /\ UNCHANGED <<loadValue, storeSchema, wipes>>

\* The caller got the promise itself (first branch, or the reload): it
\* resolves with the loaded schema; the acceptor is not applied.
ResolveDirect(c) ==
  /\ callers[c].pc = "direct"
  /\ loadState[callers[c].awaits] = "done"
  /\ callers' = [callers EXCEPT ![c] =
       [@ EXCEPT !.pc = "returned", !.result = loadValue[callers[c].awaits]]]
  /\ UNCHANGED <<schemaPromise, loadState, loadValue, storeSchema, wipes>>

\* this.schemaPromise returned as it was found, the acceptor not asked.
ResolveThenUnchecked(c) ==
  /\ callers[c].pc = "then"
  /\ loadState[callers[c].awaits] = "done"
  /\ callers' = [callers EXCEPT ![c] =
       [@ EXCEPT !.pc = "returned", !.given = loadValue[callers[c].awaits],
                 !.result = loadValue[callers[c].awaits]]]
  /\ UNCHANGED <<schemaPromise, loadState, loadValue, storeSchema, wipes>>

\* this.schemaPromise.then(schema => ...): the acceptor runs on the schema of
\* the promise the call found; a rejected schema starts one reload.
ResolveThen(c) ==
  /\ callers[c].pc = "then"
  /\ loadState[callers[c].awaits] = "done"
  /\ LET schema == loadValue[callers[c].awaits] IN
       IF acceptor(callers[c].need, schema)
         THEN /\ callers' = [callers EXCEPT ![c] =
                   [@ EXCEPT !.pc = "returned", !.given = schema, !.result = schema]]
              /\ UNCHANGED <<schemaPromise, loadState>>
         ELSE /\ StartLoad(FreshLoad)
              /\ callers' = [callers EXCEPT ![c] =
                   [@ EXCEPT !.pc = "direct", !.given = schema, !.awaits = FreshLoad,
                             !.started = @ \cup {FreshLoad}]]
  /\ UNCHANGED <<loadValue, storeSchema, wipes>>

\* deleteEverything: this.schemaPromise = null (the collections are dropped).
deleteEverything ==
  /\ wipes < MaxWipes
  /\ wipes' = wipes + 1
  /\ schemaPromise' = 0
  /\ UNCHANGED <<loadState, loadValue, storeSchema, callers>>

\* Another writer adds a field to a class: the stored schema grows.
SchemaChanged ==
  /\ storeSchema < MaxVer
  /\ storeSchema' = storeSchema + 1
  /\ UNCHANGED <<schemaPromise, loadState, loadValue, callers, wipes>>

SchemaInit ==
  /\ schemaPromise = 0
  /\ loadState = [p \in Loads |-> "none"]
  /\ loadValue = [p \in Loads |-> -1]
  /\ storeSchema \in Versions
  /\ callers = [c \in Callers |-> NoCaller]
  /\ wipes = 0

(***************************************************************************)
(* MongoCollection.find.                                                   *)
(* A store error carries a code and a message.  Of the message the model   *)
(* keeps whether it holds "unable to find index for $geoNear", whether it  *)
(* holds "field=", and the field name the store printed after "field=",    *)
(* which a blank follows.                                                  *)
(***************************************************************************)
GeoIndexErrorCode == 17007
\* Any code but 17007.
OtherErrorCode == GeoIndexErrorCode + 1

WordChars == {"a", "b"}
FieldChars == WordChars \cup {"."}

RECURSIVE SeqsUpTo(_, _)
SeqsUpTo(S, n) ==
  IF n = 0 THEN {<<>>}
  ELSE LET shorter == SeqsUpTo(S, n - 1) IN
         shorter \cup {Append(t, x) : t \in shorter, x \in S}

FieldNames == SeqsUpTo(FieldChars, MaxField)

StoreErrors ==
  [name : {"MongoError"}, code : {GeoIndexErrorCode, OtherErrorCode},
   geoNear : BOOLEAN, hasField : {TRUE}, field : FieldNames]
  \cup
  [name : {"MongoError"}, code : {GeoIndexErrorCode, OtherErrorCode},
   geoNear : BOOLEAN, hasField : {FALSE}, field : {<<>>}]

\* What null[1] throws.
TypeError == [name |-> "TypeError", code |-> 0, geoNear |-> FALSE,
              hasField |-> FALSE, field |-> <<>>]

NoError == [name |-> "none", code |-> 0, geoNear |-> FALSE,
            hasField |-> FALSE, field |-> <<>>]

\* The text of the message from "field=" on: the field name and a blank.
MessageTail(error) == error.field \o <<" ">>

\* error.message.match(/field=([A-Za-z_0-9]+) /): the longest run of word
\* characters after "field=", when it is not empty and a blank follows it;
\* "null" when the pattern does not match.
RECURSIVE WordRun(_)
WordRun(text) ==
  IF text # <<>> /\ Head(text) \in WordChars
    THEN <<Head(text)>> \o WordRun(Tail(text))
    ELSE <<>>

\* The pattern without the "+": /field=([A-Za-z_0-9]) /.
fieldMatchOneChar(error) ==
  IF ~error.hasField THEN "null"
  ELSE LET tail == MessageTail(error) IN
         IF Len(tail) >= 2 /\ tail[1] \in WordChars /\ tail[2] = " "
           THEN <<tail[1]>>
           ELSE "null"

fieldMatch(error) ==
  IF ~error.hasField THEN "null"
  ELSE LET tail == MessageTail(error)
           run == WordRun(tail)
       IN IF run # <<>> /\ Len(tail) > Len(run) /\ tail[Len(run) + 1] = " "
            THEN run
            ELSE "null"

\* error.code != 17007 || !error.message.match(/unable to find index for .geoNear/)
notGeoIndexError(error) ==
  error.code # GeoIndexErrorCode \/ ~error.geoNear

\* The .catch handler of find: what it throws, or the index it asks for.
catchHandler(error) ==
  IF notGeoIndexError(error) THEN [do |-> "throw", error |-> error, key |-> <<>>]
  ELSE IF fieldMatch(error) = "null"
    THEN [do |-> "throw", error |-> TypeError, key |-> <<>>]
  ELSE IF fieldMatch(error) = <<>>
    THEN [do |-> "throw", error |-> error, key |-> <<>>]
  ELSE [do |-> "createIndex", error |-> NoError, key |-> fieldMatch(error)]

Queries == {"q1", "q2"}
FindOptions == {[skip |-> 0, limit |-> 0, sort |-> "none"],
                [skip |-> 1, limit |-> 1, sort |-> "asc"]}

IdleFind == [pc |-> "idle", query |-> "q1",
             options |-> [skip |-> 0, limit |-> 0, sort |-> "none"],
             indexed |-> FALSE, result |-> "none", error |-> NoError]

\* _rawFind(query, { skip, limit, sort })
rawFind(query, options) ==
  rawFinds' = Append(rawFinds, [query |-> query, options |-> options])

\* find(query, { skip, limit, sort }): the first underlying find is issued.
MongoCollection_find(query, options) ==
  /\ mc.pc = "idle"
  /\ mc' = [mc EXCEPT !.pc = "raw1", !.query = query, !.options = options]
  /\ rawFind(query, options)
  /\ UNCHANGED <<indexes, storeErrors>>

\* An underlying find answers with the documents.
RawFindSucceeds ==
  /\ mc.pc \in {"raw1", "raw2"}
  /\ mc' = [mc EXCEPT !.pc = "resolved", !.result = "docs"]
  /\ UNCHANGED <<rawFinds, indexes, storeErrors>>

\* The first underlying find fails: the .catch handler runs.
FirstFindFails(error) ==
  /\ mc.pc = "raw1"
  /\ storeErrors' = Append(storeErrors, error)
  /\ LET h == catchHandler(error) IN
       IF h.do = "throw"
         THEN /\ mc' = [mc EXCEPT !.pc = "rejected", !.error = h.error]
              /\ UNCHANGED indexes
         ELSE /\ mc' = [mc EXCEPT !.pc = "indexing"]
              /\ indexes' = Append(indexes, [key |-> h.key, type |-> "2d"])
  /\ UNCHANGED rawFinds

\* createIndex resolved: .then(() => this._rawFind(query, { skip, limit, sort }))
IndexCreated ==
  /\ mc.pc = "indexing"
  /\ mc' = [mc EXCEPT !.pc = "raw2", !.indexed = TRUE]
  /\ rawFind(mc.query, mc.options)
  /\ UNCHANGED <<indexes, storeErrors>>

\* createIndex failed: the call fails with that error.
IndexFails(error) ==
  /\ mc.pc = "indexing"
  /\ storeErrors' = Append(storeErrors, error)
  /\ mc' = [mc EXCEPT !.pc = "rejected", !.error = error]
  /\ UNCHANGED <<rawFinds, indexes>>

\* The retried find fails: nothing catches it.
SecondFindFails(error) ==
  /\ mc.pc = "raw2"
  /\ storeErrors' = Append(storeErrors, error)
  /\ mc' = [mc EXCEPT !.pc = "rejected", !.error = error]
  /\ UNCHANGED <<rawFinds, indexes>>

CollInit ==
  /\ mc = IdleFind
  /\ rawFinds = <<>>
  /\ indexes = <<>>
  /\ storeErrors = <<>>

(***************************************************************************)
(* The operations of DatabaseController: data.                             *)
(***************************************************************************)
ClassNames == {"Post", "_Session"}
UserIds == {"u1", "u2"}

\* options.acl: not a key of options, null, or a list of user ids and roles.
NoAcl == [t |-> "undefined", list |-> <<>>]
AclValues == {NoAcl,
              [t |-> "null", list |-> <<>>],
              [t |-> "array", list |-> <<>>],
              [t |-> "array", list |-> <<"r1", "u1">>]}

\* 'acl' in options
hasAclKey(options) == options.acl.t # "undefined"

\* options.acl as a condition: null and undefined are falsy, every list is truthy.
aclIsTruthy(options) == options.acl.t = "array"

\* options.acl || []
aclGroupOf(options) == options.acl.list

Range(seq) == {seq[i] : i \in 1..Len(seq)}

\* _rperm / _wperm of a document: absent, or a list of ids.
Absent == [present |-> FALSE, ids |-> {}]
Listed(ids) == [present |-> TRUE, ids |-> ids]

\* The documents the collection may hold at the start.
StoredDocs ==
  {[objectId |-> "o1", _rperm |-> rw[1], _wperm |-> rw[2],
    title |-> "old", count |-> 3] :
     rw \in {<<Absent, Absent>>,
             <<Listed({"u1"}), Listed({"u1"})>>,
             <<Listed({"u2"}), Listed({"u2"})>>,
             <<Listed({"*"}), Listed({"r1"})>>,
             <<Listed({}), Listed({})>>}}

PublicDoc(id) ==
  [objectId |-> id, _rperm |-> Absent, _wperm |-> Absent, title |-> "old", count |-> 0]

\* A REST query (one node): a constraint on objectId (none, a string, or
\* {$in: [...]}), a $relatedTo clause on the relation Post.likes (its owning
\* object's id, "" when absent), and a pointer constraint on the key likes
\* (the related id, "" when absent).
NoObjectId == [t |-> "absent", s |-> "", in |-> <<>>]
IsString(id) == [t |-> "string", s |-> id, in |-> <<>>]
InList(ids) == [t |-> "in", s |-> "", in |-> ids]

RestQuery(oid, relatedTo, likes) ==
  [objectId |-> oid, relatedTo |-> relatedTo, likes |-> likes]

WriteQueries == {RestQuery(IsString("o1"), "", ""), RestQuery(NoObjectId, "", "")}

FindQueries == WriteQueries
               \cup {RestQuery(NoObjectId, "o1", ""),
                     RestQuery(NoObjectId, "", "u1"),
                     RestQuery(InList(<<"o2">>), "o1", "")}

\* Object.keys(query)
queryKeys(query) ==
  (IF query.objectId.t # "absent" THEN {"objectId"} ELSE {})
  \cup (IF query.relatedTo # "" THEN {"$relatedTo"} ELSE {})
  \cup (IF query.likes # "" THEN {"likes"} ELSE {})

\* A REST update operator.  Batch holds a list of operators.
NoOp == [__op |-> "none", objects |-> <<>>, amount |-> 0, ops |-> <<>>]
SetOp == [NoOp EXCEPT !.__op = "Set"]
Increment(n) == [NoOp EXCEPT !.__op = "Increment", !.amount = n]
AddRelation(ids) == [NoOp EXCEPT !.__op = "AddRelation", !.objects = ids]
RemoveRelation(ids) == [NoOp EXCEPT !.__op = "RemoveRelation", !.objects = ids]
Batch(ops) == [NoOp EXCEPT !.__op = "Batch", !.ops = ops]

Payload(title, count, likes) ==
  [objectId |-> "", title |-> title, count |-> count, likes |-> likes]

Payloads == {Payload(SetOp, NoOp, NoOp),
             Payload(NoOp, Increment(1), NoOp),
             Payload(SetOp, NoOp, AddRelation(<<"u1">>)),
             Payload(NoOp, NoOp,
                     Batch(<<AddRelation(<<"u1">>),
                             Batch(<<RemoveRelation(<<"u2">>)>>)>>))}

\* schema.hasKeys(className, keys): the key likes was added to the class by
\* the schema change from version 0 to version 1.
keysNeed(keys) == IF "likes" \in keys THEN 1 ELSE 0

\* The class-level permissions: per operation the ids allowed, "*" for all.
Operations == {"find", "get", "create", "update", "delete"}
PermTables ==
  {[o \in Operations |-> {"*"}],
   [o \in Operations |-> IF o \in {"get", "create"} THEN {"u1"} ELSE {"u2"}]}

\* schema.validatePermission(className, aclGroup, operation)
validatePermission(aclGroup, operation) ==
  \/ "*" \in perms[operation]
  \/ Range(aclGroup) \cap perms[operation] # {}

IdleOp == [pc |-> "idle", kind |-> "none", className |-> "Post",
           query |-> RestQuery(NoObjectId, "", ""),
           payload |-> Payload(NoOp, NoOp, NoOp),
           options |-> [acl |-> NoAcl, count |-> FALSE],
           schema |-> -1, denied |-> FALSE,
           edges |-> <<>>, edgeState |-> <<>>,
           where |-> [and |-> FALSE, base |-> RestQuery(NoObjectId, "", ""),
                      orParts |-> <<>>],
           mongoUpdate |-> [set |-> FALSE, inc |-> 0],
           matched |-> {}, n |-> 0, result |-> "none", response |-> {},
           error |-> "none"]

\* The loadSchema call an operation makes is call number 1.
OpCaller == 1

(***************************************************************************)
(* The operations of DatabaseController: the promise chains.               *)
(***************************************************************************)
isMaster(options) == ~hasAclKey(options)

\* '_Join:' + key + ':' + className
joinTableName(className, key) == <<"_Join", key, className>>

AdapterCall(fn, collection) == [fn |-> fn, collection |-> collection]

RECURSIVE SetToSeq(_)
SetToSeq(S) ==
  IF S = {} THEN <<>>
  ELSE LET x == CHOOSE y \in S : TRUE IN <<x>> \o SetToSeq(S \ {x})

\* The store's evaluation of a query it was sent.
ClauseMatches(doc, clause) ==
  LET perm == IF clause.field = "_rperm" THEN doc._rperm ELSE doc._wperm IN
    IF clause.test = "$exists" THEN ~perm.present
    ELSE perm.present /\ clause.value \in perm.ids

BaseMatches(doc, query) ==
  /\ query.relatedTo = ""
  /\ query.likes = ""
  /\ \/ query.objectId.t = "absent"
     \/ query.objectId.t = "string" /\ doc.objectId = query.objectId.s
     \/ query.objectId.t = "in" /\ doc.objectId \in Range(query.objectId.in)

Matches(doc, where) ==
  /\ BaseMatches(doc, where.base)
  /\ where.and => \E i \in 1..Len(where.orParts) : ClauseMatches(doc, where.orParts[i])

Matching(where) == {doc \in db : Matches(doc, where)}

\* transform.transformWhere(schema, className, query): the predicates under
\* the store's field names.
transformWhere(query) == query

PermClause(field, test, value) == [field |-> field, test |-> test, value |-> value]

\* The query update and destroy send: if (options.acl) { ... '$and' ... }
writeWhere(query, options) ==
  IF aclIsTruthy(options)
    THEN [and |-> TRUE, base |-> transformWhere(query),
          orParts |-> <<PermClause("_wperm", "$exists", "false")>>
                      \o [i \in 1..Len(options.acl.list) |->
                            PermClause("_wperm", "$in", options.acl.list[i])]]
    ELSE [and |-> FALSE, base |-> transformWhere(query), orParts |-> <<>>]

\* The read clause guarded the way the write clause is: if (options.acl).
readWhereIfAclTruthy(query, options) ==
  IF aclIsTruthy(options)
    THEN [and |-> TRUE, base |-> transformWhere(query),
          orParts |-> <<PermClause("_rperm", "$exists", "false"),
                        PermClause("_rperm", "$in", "*")>>
                      \o [i \in 1..Len(aclGroupOf(options)) |->
                            PermClause("_rperm", "$in", aclGroupOf(options)[i])]]
    ELSE [and |-> FALSE, base |-> transformWhere(query), orParts |-> <<>>]

\* The query find sends: if (!isMaster) { ... '$and' ... }
readWhere(query, options) ==
  IF ~isMaster(options)
    THEN [and |-> TRUE, base |-> transformWhere(query),
          orParts |-> <<PermClause("_rperm", "$exists", "false"),
                        PermClause("_rperm", "$in", "*")>>
                      \o [i \in 1..Len(aclGroupOf(options)) |->
                            PermClause("_rperm", "$in", aclGroupOf(options)[i])]]
    ELSE [and |-> FALSE, base |-> transformWhere(query), orParts |-> <<>>]

\* handleRelationUpdates, process(op, key): the edge mutations an operator schedules.
RECURSIVE process(_, _, _, _)
process(o, key, className, objectId) ==
  IF o.__op = "AddRelation"
    THEN [i \in 1..Len(o.objects) |->
            [fn |-> "addRelation", key |-> key, className |-> className,
             owningId |-> objectId, relatedId |-> o.objects[i]]]
  ELSE IF o.__op = "RemoveRelation"
    THEN [i \in 1..Len(o.objects) |->
            [fn |-> "removeRelation", key |-> key, className |-> className,
             owningId |-> objectId, relatedId |-> o.objects[i]]]
  ELSE IF o.__op = "Batch" /\ o.ops # <<>>
    THEN process(Head(o.ops), key, className, objectId)
         \o process([o EXCEPT !.ops = Tail(o.ops)], key, className, objectId)
  ELSE <<>>

\* deleteMe when process looks at the operator of the key only, not inside a Batch.
deleteMeTopLevel(o) == o.__op \in {"AddRelation", "RemoveRelation"}

\* Whether process pushes the key on deleteMe.
RECURSIVE deleteMe(_)
deleteMe(o) ==
  \/ o.__op \in {"AddRelation", "RemoveRelation"}
  \/ o.__op = "Batch" /\ \E i \in 1..Len(o.ops) : deleteMe(o.ops[i])

\* The pending mutations of the whole payload, key by key.
pendingOf(payload, className, objectId) ==
  process(payload.title, "title", className, objectId)
  \o process(payload.count, "count", className, objectId)
  \o process(payload.likes, "likes", className, objectId)

\* The payload after delete update[key] for the keys of deleteMe.
stripped(payload) ==
  [objectId |-> payload.objectId,
   title |-> IF deleteMe(payload.title) THEN NoOp ELSE payload.title,
   count |-> IF deleteMe(payload.count) THEN NoOp ELSE payload.count,
   likes |-> IF deleteMe(payload.likes) THEN NoOp ELSE payload.likes]

\* transform.transformUpdate(schema, className, update): $set and $inc.
transformUpdate(payload) ==
  [set |-> payload.title.__op = "Set",
   inc |-> IF payload.count.__op = "Increment" THEN payload.count.amount ELSE 0]

\* The document after the store applied the update.
applyUpdate(doc, mongoUpdate) ==
  [doc EXCEPT !.title = IF mongoUpdate.set THEN "new" ELSE @,
              !.count = @ + mongoUpdate.inc]

\* The operation validatePermission is asked about.
operationOf(o) ==
  CASE o.kind = "update" -> "update"
    [] o.kind = "destroy" -> "delete"
    [] o.kind = "create" -> "create"
    [] OTHER -> IF Cardinality(queryKeys(o.query)) = 1 /\ o.query.objectId.t = "string"
                  THEN "get" ELSE "find"

\* The acceptor each operation hands to loadSchema.
acceptorOf(kind, query) ==
  IF kind \in {"find", "update"} THEN keysNeed(queryKeys(query)) ELSE returnsTrue

\* The synchronous part of an operation: its arguments are kept and
\* loadSchema is called.
Call(kind, className, query, payload, options) ==
  /\ op.pc = "idle"
  /\ LoadSchemaCall(OpCaller, acceptorOf(kind, query))
  /\ op' = [IdleOp EXCEPT !.pc = "loadSchema", !.kind = kind, !.className = className,
                          !.query = query, !.payload = payload, !.options = options]
  /\ UNCHANGED <<db, joins, perms, adapterCalls>>

find(className, query, options) ==
  Call("find", className, query, Payload(NoOp, NoOp, NoOp), options)

update(className, query, payload, options) ==
  Call("update", className, query, payload, [acl |-> options.acl, count |-> FALSE])

destroy(className, query, options) ==
  Call("destroy", className, query, Payload(NoOp, NoOp, NoOp),
       [acl |-> options.acl, count |-> FALSE])

create(className, object, options) ==
  Call("create", className, RestQuery(NoObjectId, "", ""),
       [object EXCEPT !.objectId = "o2"], [acl |-> options.acl, count |-> FALSE])

\* A first .then whose validatePermission promise is not returned: the chain
\* goes on whatever it decides.
permissionStepNotChained(o, schema) ==
  [o EXCEPT !.pc = "validated", !.schema = schema]

\* What the first .then(s => ...) of every operation leaves: the schema is
\* kept and, for a caller with an acl key, validatePermission decides.
permissionStep(o, schema) ==
  IF ~isMaster(o.options)
     /\ ~validatePermission(aclGroupOf(o.options), operationOf(o))
    THEN [o EXCEPT !.pc = "rejected", !.schema = schema, !.denied = TRUE,
                   !.error = "PermissionDenied"]
    ELSE [o EXCEPT !.pc = "validated", !.schema = schema]

ThenValidate ==
  /\ op.pc = "loadSchema"
  /\ callers[OpCaller].pc = "returned"
  /\ op' = permissionStep(op, callers[OpCaller].result)
  /\ UNCHANGED <<db, joins, perms, adapterCalls>>

\* update / create: .then(() => this.handleRelationUpdates(...)).  Every
\* pending addRelation / removeRelation is issued at once; the payload loses
\* the keys of deleteMe.
handleRelationUpdates ==
  /\ op.pc = "validated"
  /\ op.kind \in {"update", "create"}
  /\ LET objectId == IF op.payload.objectId # "" THEN op.payload.objectId
                     ELSE op.query.objectId.s
         pending == pendingOf(op.payload, op.className, objectId)
     IN /\ op' = [op EXCEPT !.pc = "edges", !.edges = pending,
                            !.edgeState = [i \in 1..Len(pending) |-> "pending"],
                            !.payload = stripped(op.payload)]
        /\ adapterCalls' = adapterCalls \o
             [i \in 1..Len(pending) |->
                AdapterCall(pending[i].fn,
                            joinTableName(pending[i].className, pending[i].key))]
  /\ UNCHANGED <<db, joins, perms>>

JoinRow(e) == [key |-> e.key, className |-> e.className,
               owningId |-> e.owningId, relatedId |-> e.relatedId]

\* coll.update(doc, doc, {upsert: true}) or coll.remove(doc) of one pending
\* mutation is applied by the store.
EdgeApplied(i) ==
  /\ i \in 1..Len(op.edges)
  /\ op.edgeState[i] = "pending"
  /\ joins' = IF op.edges[i].fn = "addRelation"
                THEN joins \cup {JoinRow(op.edges[i])}
                ELSE joins \ {JoinRow(op.edges[i])}
  /\ op' = [op EXCEPT !.edgeState[i] = "done"]
  /\ UNCHANGED <<db, perms, adapterCalls>>

\* One pending mutation fails: Promise.all rejects, the others go on.
EdgeFails(i) ==
  /\ i \in 1..Len(op.edges)
  /\ op.edgeState[i] = "pending"
  /\ op' = IF op.pc = "edges"
             THEN [op EXCEPT !.edgeState[i] = "failed", !.pc = "rejected",
                             !.error = "AdapterError"]
             ELSE [op EXCEPT !.edgeState[i] = "failed"]
  /\ UNCHANGED <<db, joins, perms, adapterCalls>>

\* The next .then without Promise.all(pending) being waited for.
ThenCollectionNotAwaited ==
  /\ op.pc = "edges"
  /\ op' = [op EXCEPT !.pc = "collection"]
  /\ UNCHANGED <<db, joins, perms, adapterCalls>>

\* Promise.all(pending) resolved: .then(() => this.adaptiveCollection(className))
\* (update), .then(() => this.collection(className)) (create).
ThenCollection ==
  /\ op.pc = "edges"
  /\ \A i \in 1..Len(op.edges) : op.edgeState[i] = "done"
  /\ op' = [op EXCEPT !.pc = "collection"]
  /\ UNCHANGED <<db, joins, perms, adapterCalls>>

\* destroy: .then(() => this.collection(className))
DestroyThenCollection ==
  /\ op.pc = "validated"
  /\ op.kind = "destroy"
  /\ op' = [op EXCEPT !.pc = "collection"]
  /\ UNCHANGED <<db, joins, perms, adapterCalls>>

\* find: .then(() => this.reduceRelationKeys(className, query)): a $relatedTo
\* clause asks the join collection for the related ids.
reduceRelationKeys ==
  /\ op.pc = "validated"
  /\ op.kind = "find"
  /\ IF op.query.relatedTo # ""
       THEN /\ op' = [op EXCEPT !.pc = "relatedIds"]
            /\ adapterCalls' = Append(adapterCalls,
                 AdapterCall("relatedIds", joinTableName("Post", "likes")))
       ELSE /\ op' = [op EXCEPT !.pc = "reduceIn"]
            /\ UNCHANGED adapterCalls
  /\ UNCHANGED <<db, joins, perms>>

\* relatedIds answers: $relatedTo is deleted and the ids are put after the
\* $in list the objectId constraint had.
RelatedIdsAnswer ==
  /\ op.pc = "relatedIds"
  /\ LET ids == SetToSeq({r.relatedId : r \in
                   {r \in joins : /\ r.key = "likes" /\ r.className = "Post"
                                  /\ r.owningId = op.query.relatedTo}})
         queryIn == IF op.query.objectId.t = "in" THEN op.query.objectId.in ELSE <<>>
     IN op' = [op EXCEPT !.pc = "reduceIn", !.query.relatedTo = "",
                         !.query.objectId = InList(queryIn \o ids)]
  /\ UNCHANGED <<db, joins, perms, adapterCalls>>

\* schema.getExpectedType(className, "likes") is relation<_User> once the
\* schema knows the key.
likesIsRelation(schema) == schema >= 1

\* find: .then(() => this.reduceInRelation(className, query, schema)): a
\* pointer constraint on a relation key asks the join collection for the
\* owning ids.
reduceInRelation ==
  /\ op.pc = "reduceIn"
  /\ IF op.query.likes # "" /\ likesIsRelation(op.schema)
       THEN /\ op' = [op EXCEPT !.pc = "owningIds"]
            /\ adapterCalls' = Append(adapterCalls,
                 AdapterCall("owningIds", joinTableName(op.className, "likes")))
       ELSE /\ op' = [op EXCEPT !.pc = "collection"]
            /\ UNCHANGED adapterCalls
  /\ UNCHANGED <<db, joins, perms>>

\* owningIds answers: the key is deleted and the ids join the $in list of
\* the objectId constraint.
OwningIdsAnswer ==
  /\ op.pc = "owningIds"
  /\ LET ids == SetToSeq({r.owningId : r \in
                   {r \in joins : /\ r.key = "likes" /\ r.className = op.className
                                  /\ r.relatedId = op.query.likes}})
         queryIn == IF op.query.objectId.t = "in" THEN op.query.objectId.in ELSE <<>>
     IN op' = [op EXCEPT !.pc = "collection", !.query.likes = "",
                         !.query.objectId = InList(queryIn \o ids)]
  /\ UNCHANGED <<db, joins, perms, adapterCalls>>

\* The collection handle arrives: the store query is built and sent.
UpdateSend ==
  /\ op.pc = "collection"
  /\ op.kind = "update"
  /\ op' = [op EXCEPT !.pc = "store",
                      !.where = writeWhere(op.query, op.options),
                      !.mongoUpdate = transformUpdate(op.payload)]
  /\ adapterCalls' = Append(adapterCalls,
                            AdapterCall("findOneAndUpdate", <<op.className>>))
  /\ UNCHANGED <<db, joins, perms>>

DestroySend ==
  /\ op.pc = "collection"
  /\ op.kind = "destroy"
  /\ op' = [op EXCEPT !.pc = "store", !.where = writeWhere(op.query, op.options)]
  /\ adapterCalls' = Append(adapterCalls, AdapterCall("remove", <<op.className>>))
  /\ UNCHANGED <<db, joins, perms>>

CreateSend ==
  /\ op.pc = "collection"
  /\ op.kind = "create"
  /\ op' = [op EXCEPT !.pc = "store"]
  /\ adapterCalls' = Append(adapterCalls, AdapterCall("insert", <<op.className>>))
  /\ UNCHANGED <<db, joins, perms>>

CountSend ==
  /\ op.pc = "collection"
  /\ op.kind = "find"
  /\ op.options.count
  /\ op' = [op EXCEPT !.pc = "store", !.where = readWhere(op.query, op.options)]
  /\ adapterCalls' = Append(adapterCalls, AdapterCall("count", <<op.className>>))
  /\ UNCHANGED <<db, joins, perms>>

\* collection.find(mongoWhere, mongoOptions) is MongoCollection.find.
FindSend ==
  /\ op.pc = "collection"
  /\ op.kind = "find"
  /\ ~op.options.count
  /\ op' = [op EXCEPT !.pc = "finding", !.where = readWhere(op.query, op.options)]
  /\ MongoCollection_find(readWhere(op.query, op.options), IdleFind.options)
  /\ adapterCalls' = Append(adapterCalls, AdapterCall("find", <<op.className>>))
  /\ UNCHANGED <<db, joins, perms>>

\* The result handler of update with the exception destroy makes for _Session.
updateThenSessionTolerant(o, found) ==
  IF ~found /\ o.className # "_Session"
    THEN [o EXCEPT !.pc = "rejected", !.error = "ObjectNotFound"]
    ELSE [o EXCEPT !.pc = "resolved", !.result = "response"]

\* update: .then(result => ...), result being the document after the
\* change, or null when no document matched.
updateThen(o, found) ==
  IF ~found
    THEN [o EXCEPT !.pc = "rejected", !.error = "ObjectNotFound"]
    ELSE [o EXCEPT !.pc = "resolved", !.result = "response"]

\* findAndModify without {new: true}: the document as it was before the change.
findOneAndUpdateReturningOriginal(doc, mongoUpdate) == doc

\* MongoCollection.findOneAndUpdate: findAndModify(query, [], update, {new: true}),
\* then document.value, the document after the change.
findOneAndUpdate(doc, mongoUpdate) == applyUpdate(doc, mongoUpdate)

\* let response = {}; Object.keys(inc).forEach(key => response[key] = result[key])
updateResponse(mongoUpdate, result) ==
  IF mongoUpdate.inc # 0 THEN {<<"count", result.count>>} ELSE {}

\* findOneAndUpdate answers: one matching document was changed, or none matched.
UpdateAnswer ==
  /\ op.pc = "store"
  /\ op.kind = "update"
  /\ \/ /\ Matching(op.where) = {}
        /\ op' = updateThen(op, FALSE)
        /\ UNCHANGED db
     \/ \E doc \in Matching(op.where) :
          /\ db' = (db \ {doc}) \cup {applyUpdate(doc, op.mongoUpdate)}
          /\ op' = [updateThen([op EXCEPT !.matched = {doc}, !.n = 1], TRUE)
                      EXCEPT !.response =
                        updateResponse(op.mongoUpdate,
                                       findOneAndUpdate(doc, op.mongoUpdate))]
  /\ UNCHANGED <<joins, perms, adapterCalls>>

\* The result handler of destroy without the test on the class name.
destroyThenOnEveryClass(o, n) ==
  IF n = 0
    THEN [o EXCEPT !.pc = "rejected", !.error = "ObjectNotFound"]
    ELSE [o EXCEPT !.pc = "resolved"]

\* destroy: .then(resp => ...), resp.result.n being the number removed.
destroyThen(o, n) ==
  IF n = 0 /\ o.className # "_Session"
    THEN [o EXCEPT !.pc = "rejected", !.error = "ObjectNotFound"]
    ELSE [o EXCEPT !.pc = "resolved"]

\* remove answers: every matching document is gone.
DestroyAnswer ==
  /\ op.pc = "store"
  /\ op.kind = "destroy"
  /\ db' = db \ Matching(op.where)
  /\ op' = destroyThen([op EXCEPT !.matched = Matching(op.where),
                                  !.n = Cardinality(Matching(op.where))],
                       Cardinality(Matching(op.where)))
  /\ UNCHANGED <<joins, perms, adapterCalls>>

\* transform.transformCreate(schema, className, object)
transformCreate(payload) ==
  [PublicDoc(payload.objectId) EXCEPT
     !.title = IF payload.title.__op = "Set" THEN "new" ELSE @]

\* insert answers: the document is stored, unless its id is taken.
CreateAnswer ==
  /\ op.pc = "store"
  /\ op.kind = "create"
  /\ IF \E doc \in db : doc.objectId = op.payload.objectId
       THEN /\ op' = [op EXCEPT !.pc = "rejected", !.error = "AdapterError"]
            /\ UNCHANGED db
       ELSE /\ op' = [op EXCEPT !.pc = "resolved"]
            /\ db' = db \cup {transformCreate(op.payload)}
  /\ UNCHANGED <<joins, perms, adapterCalls>>

\* count answers.
CountAnswer ==
  /\ op.pc = "store"
  /\ op.kind = "find"
  /\ op' = [op EXCEPT !.pc = "resolved", !.matched = Matching(op.where),
                      !.n = Cardinality(Matching(op.where)), !.result = "count"]
  /\ UNCHANGED <<db, joins, perms, adapterCalls>>

\* MongoCollection.find answered: the documents are mapped to objects, or the
\* failure is the operation's.
FindAnswer ==
  /\ op.pc = "finding"
  /\ mc.pc \in {"resolved", "rejected"}
  /\ op' = IF mc.pc = "resolved"
             THEN [op EXCEPT !.pc = "resolved", !.matched = Matching(op.where),
                             !.n = Cardinality(Matching(op.where)), !.result = "objects"]
             ELSE [op EXCEPT !.pc = "rejected", !.error = "AdapterError"]
  /\ UNCHANGED <<db, joins, perms, adapterCalls>>

LikesRows == {[key |-> "likes", className |-> "Post", owningId |-> "o1", relatedId |-> u] :
                u \in UserIds}

OpInit ==
  /\ op = IdleOp
  /\ db \in {{}} \cup {{doc, PublicDoc("o2")} : doc \in StoredDocs}
  /\ joins = LikesRows
  /\ perms \in PermTables
  /\ adapterCalls = <<>>

\* The store errors the class's collection answers a find with.
FindErrors ==
  {e \in StoreErrors : /\ e.geoNear = (e.code = GeoIndexErrorCode)
                       /\ e.field \in {<<>>, <<"a">>}}

(***************************************************************************)
(* find: the rewriting of a query tree (reduceRelationKeys, then           *)
(* reduceInRelation, then transform.transformWhere).                       *)
(* A query node is a REST object: an optional $or list and $and list of    *)
(* sub-queries, an optional $relatedTo clause, a constraint on objectId,   *)
(* a constraint on the key likes (a pointer or an $in list of pointers)    *)
(* and a constraint on the plain key title.  The value reduceInRelation    *)
(* leaves in place of a nested $or branch is a list of undefined.          *)
(***************************************************************************)
MaxBranches == 2
MaxPasses == 2

NoRelatedTo == [className |-> "", objectId |-> "", key |-> ""]
RelatedTo(className, objectId, key) ==
  [className |-> className, objectId |-> objectId, key |-> key]

\* The constraint on the key likes: none, a pointer ({__type: 'Pointer',
\* objectId: id}), or {$in: [pointers]}.
NoPointer == [t |-> "absent", ids |-> <<>>]

\* {objectId: ..., $relatedTo: ..., likes: ..., title: ...}
QueryNode(objectId, relatedTo, likes, title) ==
  [t |-> "object", hasOr |-> FALSE, or |-> <<>>, hasAnd |-> FALSE, and |-> <<>>,
   objectId |-> objectId, relatedTo |-> relatedTo, likes |-> likes, title |-> title,
   len |-> 0]

\* [undefined, ..., undefined]
UndefinedList(n) ==
  [QueryNode(NoObjectId, NoRelatedTo, NoPointer, "") EXCEPT !.t = "array", !.len = n]

\* The queries find is given: leaves, one level of $or / $and over the
\* leaves, and a second level over leaves and nodes with a list of their
\* own.  A node with a list may carry $relatedTo or a pointer beside it.
QueryTrees ==
  LET Pointer(id) == [t |-> "pointer", ids |-> <<id>>]
      InPointers(ids) == [t |-> "in", ids |-> ids]
      WithOr(node, subqueries) == [node EXCEPT !.hasOr = TRUE, !.or = subqueries]
      WithAnd(node, subqueries) == [node EXCEPT !.hasAnd = TRUE, !.and = subqueries]
      empty == QueryNode(NoObjectId, NoRelatedTo, NoPointer, "")
      plain == QueryNode(NoObjectId, NoRelatedTo, NoPointer, "x")
      related == QueryNode(NoObjectId, RelatedTo("Post", "p1", "likes"), NoPointer, "")
      liked == QueryNode(IsString("o1"), NoRelatedTo, Pointer("u1"), "")
      leaves == {plain, related, liked,
                 QueryNode(InList(<<"o2">>), RelatedTo("Post", "p1", "likes"),
                           NoPointer, ""),
                 QueryNode(NoObjectId, NoRelatedTo, InPointers(<<"u1", "u2">>), "x")}
      ownKeys == {empty, related, QueryNode(NoObjectId, NoRelatedTo, Pointer("u1"), "")}
      Combined(subqueries) ==
        {WithOr(own, subqueries) : own \in ownKeys}
        \cup {WithAnd(own, subqueries) : own \in ownKeys}
      nested == {plain, related, liked,
                 WithOr(empty, <<related>>),
                 WithOr(empty, <<liked, plain>>),
                 WithOr(related, <<plain>>),
                 WithAnd(empty, <<liked>>)}
      level1 == UNION {Combined(subqueries) :
                         subqueries \in SeqsUpTo(leaves, MaxBranches) \ {<<>>}}
      level2 == UNION {Combined(subqueries) :
                         subqueries \in SeqsUpTo(nested, MaxBranches) \ {<<>>}}
  IN leaves \cup level1 \cup level2

\* The documents of the join collections, in the store's order.
JoinDoc(className, key, owningId, relatedId) ==
  [collection |-> joinTableName(className, key), owningId |-> owningId,
   relatedId |-> relatedId]

JoinContents ==
  {<<>>,
   <<JoinDoc("Post", "likes", "p1", "u1"), JoinDoc("Post", "likes", "p1", "u2")>>,
   <<JoinDoc("Post", "likes", "o3", "u1"), JoinDoc("Post", "fans", "p1", "u3"),
     JoinDoc("Post", "likes", "p1", "u2"), JoinDoc("Post", "likes", "o4", "u2"),
     JoinDoc("Post", "likes", "p1", "u1")>>}

\* coll.find(filter) on a join collection: the matching documents in order.
JoinFind(rows, collection, field, values) ==
  SelectSeq(rows, LAMBDA r : /\ r.collection = collection
                             /\ (IF field = "owningId" THEN r.owningId ELSE r.relatedId)
                                  \in values)

\* relatedIds with the filter {owningId: owningId} left out.
relatedIdsOfEveryOwner(rows, className, key, owningId) ==
  LET results == JoinFind(rows, joinTableName(className, key), "owningId",
                          {rows[i].owningId : i \in 1..Len(rows)})
  IN [i \in 1..Len(results) |-> results[i].relatedId]

\* relatedIds(className, key, owningId)
relatedIds(rows, className, key, owningId) ==
  LET results == JoinFind(rows, joinTableName(className, key), "owningId", {owningId})
  IN [i \in 1..Len(results) |-> results[i].relatedId]

\* owningIds(className, key, relatedIds)
owningIds(rows, className, key, ids) ==
  LET results == JoinFind(rows, joinTableName(className, key), "relatedId", Range(ids))
  IN [i \in 1..Len(results) |-> results[i].owningId]

\* reduceRelationKeys(className, query): the query object after the promise
\* resolved.  A node with $or hands its sub-queries on and returns; any other
\* node with $relatedTo gets objectId: {$in: queryIn.concat(ids)}.
RECURSIVE reduceRelationKeysTree(_, _)
reduceRelationKeysTree(query, rows) ==
  IF query.t # "object" THEN query
  ELSE IF query.hasOr
    THEN [query EXCEPT !.or = [i \in 1..Len(query.or) |->
                                 reduceRelationKeysTree(query.or[i], rows)]]
  ELSE IF query.relatedTo # NoRelatedTo
    THEN LET ids == relatedIds(rows, query.relatedTo.className, query.relatedTo.key,
                               query.relatedTo.objectId)
             queryIn == IF query.objectId.t \in {"in", "chars"}
                          THEN query.objectId.in ELSE <<>>
         IN [query EXCEPT !.relatedTo = NoRelatedTo, !.objectId = InList(queryIn \o ids)]
  ELSE query

\* schema.getExpectedType(className, key): likes is a relation of the class
\* Post once the schema knows the key.
getExpectedType(schema, className, key) ==
  IF key = "likes" /\ className = "Post" /\ schema >= 1 THEN "relation<_User>"
  ELSE IF key \in {"objectId", "title"} THEN "String"
  ELSE "undefined"

\* reduceInRelation on a node without $or: Object.keys(query).map(...) with
\* the key likes the only one that holds an $in list or a pointer on a
\* relation.  The key is deleted; query.objectId becomes
\* Object.assign({'$in': []}, query.objectId) with the owning ids added to
\* $in (a string contributes its characters as keys).
reduceInRelationKeys(className, query, schema, rows) ==
  IF /\ query.t = "object"
     /\ query.likes.t \in {"pointer", "in"}
     /\ getExpectedType(schema, className, "likes") = "relation<_User>"
    THEN LET ids == owningIds(rows, className, "likes", query.likes.ids)
             objectId == query.objectId
         IN [query EXCEPT
               !.likes = NoPointer,
               !.objectId =
                  IF objectId.t = "absent" THEN InList(ids)
                  ELSE IF objectId.t = "string"
                    THEN [t |-> "chars", s |-> objectId.s, in |-> ids]
                  ELSE [objectId EXCEPT !.in = @ \o ids]]
    ELSE query

\* What the promise of reduceInRelation resolves to: for a node with $or the
\* value of Promise.all over callbacks that return nothing, otherwise the
\* query.
reduceInRelationValue(className, query, schema, rows) ==
  IF query.t = "object" /\ query.hasOr
    THEN UndefinedList(Len(query.or))
    ELSE reduceInRelationKeys(className, query, schema, rows)

\* reduceInRelation(className, query, schema): the query object after the
\* promise resolved; query['$or'][index] = aQuery for every sub-query.
reduceInRelationTree(className, query, schema, rows) ==
  IF query.t = "object" /\ query.hasOr
    THEN [query EXCEPT !.or = [i \in 1..Len(query.or) |->
                                 reduceInRelationValue(className, query.or[i], schema, rows)]]
    ELSE reduceInRelationKeys(className, query, schema, rows)

IdleRewrite ==
  [pc |-> "idle", className |-> "Post", schema |-> 0, rows |-> <<>>,
   given |-> QueryNode(NoObjectId, NoRelatedTo, NoPointer, ""),
   query |-> QueryNode(NoObjectId, NoRelatedTo, NoPointer, ""),
   passes |-> 0,
   handed |-> QueryNode(NoObjectId, NoRelatedTo, NoPointer, "")]

\* find arrives at .then(() => this.reduceRelationKeys(className, query)).
RewriteInit ==
  /\ rq \in {[IdleRewrite EXCEPT !.pc = "validated", !.className = cn, !.schema = v,
                                 !.rows = rows, !.given = q, !.query = q] :
               cn \in {"Post", "_User"}, v \in Versions, rows \in JoinContents,
               q \in QueryTrees}

\* .then(() => this.reduceRelationKeys(className, query)) has resolved.
RelationKeysReduced ==
  /\ rq.pc = "validated"
  /\ rq' = [rq EXCEPT !.pc = "relatedTo", !.passes = 1,
                      !.query = reduceRelationKeysTree(rq.query, rq.rows)]

\* reduceRelationKeys is applied to the rewritten query once more.
RelationKeysReducedAgain ==
  /\ rq.pc = "relatedTo"
  /\ rq.passes < MaxPasses
  /\ rq' = [rq EXCEPT !.passes = @ + 1,
                      !.query = reduceRelationKeysTree(rq.query, rq.rows)]

\* .then(() => this.reduceInRelation(className, query, schema)) has resolved.
InRelationReduced ==
  /\ rq.pc = "relatedTo"
  /\ rq' = [rq EXCEPT !.pc = "inRelation",
                      !.query = reduceInRelationTree(rq.className, rq.query, rq.schema,
                                                     rq.rows)]

\* .then(collection => { var mongoWhere = transform.transformWhere(schema,
\* className, query); ... }): the query is handed to the translator.
WhereTransformed ==
  /\ rq.pc = "inRelation"
  /\ rq' = [rq EXCEPT !.pc = "transformWhere", !.handed = rq.query]

(***************************************************************************)
(* addRelation and removeRelation on the join collection of one relation   *)
(* key of one owning class.  The collection is a list of documents; every  *)
(* call first obtains the collection and then sends one request, which the *)
(* store applies at some later moment.                                     *)
(***************************************************************************)
MaxRelCalls == 3

\* doc = {relatedId: toId, owningId: fromId}
EdgeDoc(fromId, toId) == [relatedId |-> toId, owningId |-> fromId]

Edges == {EdgeDoc(fromId, toId) : fromId \in {"p1"}, toId \in {"u1", "u2"}}

\* addRelation with coll.insert(doc) in place of the upsert.
addRelationInserting(doc) == [fn |-> "insert", filter |-> doc, doc |-> doc, upsert |-> FALSE]

\* addRelation: coll.update(doc, doc, {upsert: true})
addRelationRequest(doc) == [fn |-> "update", filter |-> doc, doc |-> doc, upsert |-> TRUE]

\* removeRelation: coll.remove(doc)
removeRelationRequest(doc) == [fn |-> "remove", filter |-> doc, doc |-> doc, upsert |-> FALSE]

\* The store applies a request to the documents of the collection: insert
\* adds the document; remove takes out every document equal to the filter;
\* update replaces the first document equal to the filter and, with upsert,
\* adds the document when there is none.
StoreApply(docs, request) ==
  LET matching == {i \in 1..Len(docs) : docs[i] = request.filter} IN
    IF request.fn = "insert" THEN Append(docs, request.doc)
    ELSE IF request.fn = "remove" THEN SelectSeq(docs, LAMBDA d : d # request.filter)
    ELSE IF matching # {}
      THEN [docs EXCEPT ![CHOOSE i \in matching : \A j \in matching : i <= j] =
                          request.doc]
    ELSE IF request.upsert THEN Append(docs, request.doc)
    ELSE docs

\* addRelation(key, fromClassName, fromId, toId) is called.
addRelation(fromId, toId) ==
  /\ Len(relCalls) < MaxRelCalls
  /\ relCalls' = Append(relCalls, [fn |-> "addRelation", doc |-> EdgeDoc(fromId, toId),
                                   pc |-> "collection",
                                   request |-> addRelationRequest(EdgeDoc(fromId, toId))])
  /\ UNCHANGED <<joinColl, relLog>>

\* removeRelation(key, fromClassName, fromId, toId) is called.
removeRelation(fromId, toId) ==
  /\ Len(relCalls) < MaxRelCalls
  /\ relCalls' = Append(relCalls, [fn |-> "removeRelation", doc |-> EdgeDoc(fromId, toId),
                                   pc |-> "collection",
                                   request |-> removeRelationRequest(EdgeDoc(fromId, toId))])
  /\ UNCHANGED <<joinColl, relLog>>

\* this.collection(className).then((coll) => ...): the request is sent.
RelationRequestSent(c) ==
  /\ c \in 1..Len(relCalls)
  /\ relCalls[c].pc = "collection"
  /\ relCalls' = [relCalls EXCEPT ![c].pc = "store"]
  /\ UNCHANGED <<joinColl, relLog>>

\* The store applies the request and acknowledges it: the call resolves.
RelationRequestApplied(c) ==
  /\ c \in 1..Len(relCalls)
  /\ relCalls[c].pc = "store"
  /\ joinColl' = StoreApply(joinColl, relCalls[c].request)
  /\ relCalls' = [relCalls EXCEPT ![c].pc = "resolved"]
  /\ relLog' = [relLog EXCEPT ![relCalls[c].doc] = relCalls[c].fn]

RelationInit ==
  /\ \/ /\ joinColl = <<>>
        /\ relLog = [e \in Edges |-> "none"]
     \/ /\ joinColl = <<EdgeDoc("p1", "u1")>>
        /\ relLog = [e \in Edges |-> IF e = EdgeDoc("p1", "u1") THEN "addRelation"
                                                                ELSE "none"]
  /\ relCalls = <<>>

(***************************************************************************)
(* find: the mapping of the store's documents to objects.                  *)
(* A document and an object are records; a key that is absent is not in    *)
(* the record's domain.                                                    *)
(***************************************************************************)
MaxResults == 2

MongoDocs ==
  {[_id |-> "u1", _session_token |-> "r:1", _auth_data |-> "fb", title |-> "a"],
   [_id |-> "u2", _session_token |-> "r:2", _auth_data |-> "fb", title |-> "b"],
   [_id |-> "u1", title |-> "c"]}

\* The key of the object for a key of the document.
RestKey(mongoKey) ==
  CASE mongoKey = "_id" -> "objectId"
    [] mongoKey = "_session_token" -> "sessionToken"
    [] mongoKey = "_auth_data" -> "authData"
    [] OTHER -> mongoKey

MongoKey(restKey) ==
  CASE restKey = "objectId" -> "_id"
    [] restKey = "sessionToken" -> "_session_token"
    [] restKey = "authData" -> "_auth_data"
    [] OTHER -> restKey

\* transform.untransformObject(schema, className, mongoObject)
transformUntransformObject(mongoObject) ==
  [k \in {RestKey(m) : m \in DOMAIN mongoObject} |-> mongoObject[MongoKey(k)]]

\* delete object[key]
deleteKey(object, key) == [k \in DOMAIN object \ {key} |-> object[k]]

\* untransformObject that leaves the session token in place.
untransformObjectKeepingToken(master, aclGroup, className, mongoObject) ==
  LET object == transformUntransformObject(mongoObject) IN
    IF className # "_User" THEN object
    ELSE IF master \/ object.objectId \in Range(aclGroup) THEN object
    ELSE deleteKey(object, "authData")

\* untransformObject(schema, isMaster, aclGroup, className, mongoObject)
untransformObject(master, aclGroup, className, mongoObject) ==
  LET object == transformUntransformObject(mongoObject) IN
    IF className # "_User" THEN object
    ELSE IF master \/ object.objectId \in Range(aclGroup) THEN object
    ELSE deleteKey(deleteKey(object, "authData"), "sessionToken")

IdleProjection ==
  [pc |-> "idle", className |-> "Post", options |-> [acl |-> NoAcl, count |-> FALSE],
   mongoResults |-> <<>>, objects |-> <<>>]

\* find has called collection.find(mongoWhere, mongoOptions).
ProjectionInit ==
  proj \in {[IdleProjection EXCEPT !.pc = "finding", !.className = cn,
                                   !.options = [acl |-> a, count |-> FALSE]] :
              cn \in {"_User", "Post", "_Session"}, a \in AclValues}

\* .then((mongoResults) => mongoResults.map((r) => this.untransformObject(
\*   schema, isMaster, aclGroup, className, r)))
ResultsMapped(mongoResults) ==
  /\ proj.pc = "finding"
  /\ proj' = [proj EXCEPT !.pc = "resolved", !.mongoResults = mongoResults,
                          !.objects = [i \in 1..Len(mongoResults) |->
                             untransformObject(isMaster(proj.options),
                                               aclGroupOf(proj.options),
                                               proj.className, mongoResults[i])]]

ManagerIdle ==
  /\ rq = IdleRewrite
  /\ joinColl = <<>>
  /\ relCalls = <<>>
  /\ relLog = [e \in Edges |-> "none"]
  /\ proj = IdleProjection

(***************************************************************************)
(* Specifications.                                                         *)
(***************************************************************************)
SchemaNext ==
  \/ \E c \in Callers : loadSchema(c) /\ UNCHANGED <<collVars, opVars>> /\ UNCHANGED managerVars
  \/ \E p \in Loads : CollectionObtained(p) /\ UNCHANGED <<collVars, opVars>> /\ UNCHANGED managerVars
  \/ \E p \in Loads : SchemaLoaded(p) /\ UNCHANGED <<collVars, opVars>> /\ UNCHANGED managerVars
  \/ \E c \in Callers : ResolveDirect(c) /\ UNCHANGED <<collVars, opVars>> /\ UNCHANGED managerVars
  \/ \E c \in Callers : ResolveThen(c) /\ UNCHANGED <<collVars, opVars>> /\ UNCHANGED managerVars
  \/ deleteEverything /\ UNCHANGED <<collVars, opVars>> /\ UNCHANGED managerVars
  \/ SchemaChanged /\ UNCHANGED <<collVars, opVars>> /\ UNCHANGED managerVars

OpIdle ==
  /\ op = IdleOp
  /\ db = {}
  /\ joins = {}
  /\ perms = [o \in Operations |-> {"*"}]
  /\ adapterCalls = <<>>

InitSchema == SchemaInit /\ CollInit /\ OpIdle /\ ManagerIdle

SpecSchema == InitSchema /\ [][SchemaNext]_vars

CollNext ==
  \/ \E q \in Queries, o \in FindOptions : MongoCollection_find(q, o) /\ UNCHANGED <<schemaVars, opVars>> /\ UNCHANGED managerVars
  \/ RawFindSucceeds /\ UNCHANGED <<schemaVars, opVars>> /\ UNCHANGED managerVars
  \/ \E e \in StoreErrors : FirstFindFails(e) /\ UNCHANGED <<schemaVars, opVars>> /\ UNCHANGED managerVars
  \/ IndexCreated /\ UNCHANGED <<schemaVars, opVars>> /\ UNCHANGED managerVars
  \/ \E e \in StoreErrors : IndexFails(e) /\ UNCHANGED <<schemaVars, opVars>> /\ UNCHANGED managerVars
  \/ \E e \in StoreErrors : SecondFindFails(e) /\ UNCHANGED <<schemaVars, opVars>> /\ UNCHANGED managerVars

InitColl == SchemaInit /\ storeSchema = 0 /\ CollInit /\ OpIdle /\ ManagerIdle

SpecColl == InitColl /\ [][CollNext]_vars


\* An earlier request has called loadSchema: its load waits for the handle
\* of the _SCHEMA collection.
SchemaInitLoading ==
  /\ schemaPromise = 1
  /\ loadState = [p \in Loads |-> IF p = 1 THEN "coll" ELSE "none"]
  /\ loadValue = [p \in Loads |-> -1]
  /\ storeSchema \in Versions
  /\ callers = [c \in Callers |-> NoCaller]
  /\ wipes = 0

Next ==
  \/ \E cn \in ClassNames, q \in FindQueries, a \in AclValues, cnt \in BOOLEAN :
       find(cn, q, [acl |-> a, count |-> cnt]) /\ UNCHANGED collVars /\ UNCHANGED managerVars
  \/ \E cn \in ClassNames, q \in WriteQueries, u \in Payloads, a \in AclValues :
       update(cn, q, u, [acl |-> a]) /\ UNCHANGED collVars /\ UNCHANGED managerVars
  \/ \E cn \in ClassNames, q \in WriteQueries, a \in AclValues :
       destroy(cn, q, [acl |-> a]) /\ UNCHANGED collVars /\ UNCHANGED managerVars
  \/ \E cn \in ClassNames, u \in Payloads, a \in AclValues :
       create(cn, u, [acl |-> a]) /\ UNCHANGED collVars /\ UNCHANGED managerVars
  \/ \E p \in Loads : CollectionObtained(p) /\ UNCHANGED <<collVars, opVars>> /\ UNCHANGED managerVars
  \/ \E p \in Loads : SchemaLoaded(p) /\ UNCHANGED <<collVars, opVars>> /\ UNCHANGED managerVars
  \/ \E c \in Callers : ResolveDirect(c) /\ UNCHANGED <<collVars, opVars>> /\ UNCHANGED managerVars
  \/ \E c \in Callers : ResolveThen(c) /\ UNCHANGED <<collVars, opVars>> /\ UNCHANGED managerVars
  \/ ThenValidate /\ UNCHANGED <<schemaVars, collVars>> /\ UNCHANGED managerVars
  \/ handleRelationUpdates /\ UNCHANGED <<schemaVars, collVars>> /\ UNCHANGED managerVars
  \/ \E i \in 1..Len(op.edges) : EdgeApplied(i) /\ UNCHANGED <<schemaVars, collVars>> /\ UNCHANGED managerVars
  \/ \E i \in 1..Len(op.edges) : EdgeFails(i) /\ UNCHANGED <<schemaVars, collVars>> /\ UNCHANGED managerVars
  \/ ThenCollection /\ UNCHANGED <<schemaVars, collVars>> /\ UNCHANGED managerVars
  \/ DestroyThenCollection /\ UNCHANGED <<schemaVars, collVars>> /\ UNCHANGED managerVars
  \/ reduceRelationKeys /\ UNCHANGED <<schemaVars, collVars>> /\ UNCHANGED managerVars
  \/ RelatedIdsAnswer /\ UNCHANGED <<schemaVars, collVars>> /\ UNCHANGED managerVars
  \/ reduceInRelation /\ UNCHANGED <<schemaVars, collVars>> /\ UNCHANGED managerVars
  \/ OwningIdsAnswer /\ UNCHANGED <<schemaVars, collVars>> /\ UNCHANGED managerVars
  \/ UpdateSend /\ UNCHANGED <<schemaVars, collVars>> /\ UNCHANGED managerVars
  \/ DestroySend /\ UNCHANGED <<schemaVars, collVars>> /\ UNCHANGED managerVars
  \/ CreateSend /\ UNCHANGED <<schemaVars, collVars>> /\ UNCHANGED managerVars
  \/ CountSend /\ UNCHANGED <<schemaVars, collVars>> /\ UNCHANGED managerVars
  \/ FindSend /\ UNCHANGED <<schemaVars, indexes, storeErrors>> /\ UNCHANGED managerVars
  \/ UpdateAnswer /\ UNCHANGED <<schemaVars, collVars>> /\ UNCHANGED managerVars
  \/ DestroyAnswer /\ UNCHANGED <<schemaVars, collVars>> /\ UNCHANGED managerVars
  \/ CreateAnswer /\ UNCHANGED <<schemaVars, collVars>> /\ UNCHANGED managerVars
  \/ CountAnswer /\ UNCHANGED <<schemaVars, collVars>> /\ UNCHANGED managerVars
  \/ FindAnswer /\ UNCHANGED <<schemaVars, collVars>> /\ UNCHANGED managerVars
  \/ mc.pc # "idle" /\ RawFindSucceeds /\ UNCHANGED <<schemaVars, opVars>> /\ UNCHANGED managerVars
  \/ \E e \in FindErrors : FirstFindFails(e) /\ UNCHANGED <<schemaVars, opVars>> /\ UNCHANGED managerVars
  \/ IndexCreated /\ UNCHANGED <<schemaVars, opVars>> /\ UNCHANGED managerVars
  \/ \E e \in FindErrors : IndexFails(e) /\ UNCHANGED <<schemaVars, opVars>> /\ UNCHANGED managerVars
  \/ \E e \in FindErrors : SecondFindFails(e) /\ UNCHANGED <<schemaVars, opVars>> /\ UNCHANGED managerVars

Init == (SchemaInit \/ SchemaInitLoading) /\ CollInit /\ OpInit /\ ManagerIdle

Spec == Init /\ [][Next]_vars

QueryNext ==
  \/ RelationKeysReduced /\ UNCHANGED <<schemaVars, collVars, opVars, joinColl, relCalls, relLog, proj>>
  \/ RelationKeysReducedAgain /\ UNCHANGED <<schemaVars, collVars, opVars, joinColl, relCalls, relLog, proj>>
  \/ InRelationReduced /\ UNCHANGED <<schemaVars, collVars, opVars, joinColl, relCalls, relLog, proj>>
  \/ WhereTransformed /\ UNCHANGED <<schemaVars, collVars, opVars, joinColl, relCalls, relLog, proj>>

InitQuery ==
  /\ SchemaInit /\ storeSchema = 0 /\ CollInit /\ OpIdle
  /\ RewriteInit /\ joinColl = <<>> /\ relCalls = <<>>
  /\ relLog = [e \in Edges |-> "none"] /\ proj = IdleProjection

SpecQuery == InitQuery /\ [][QueryNext]_vars

RelNext ==
  \/ \E e \in Edges :
       addRelation(e.owningId, e.relatedId) /\ UNCHANGED <<schemaVars, collVars, opVars, rq, proj>>
  \/ \E e \in Edges :
       removeRelation(e.owningId, e.relatedId) /\ UNCHANGED <<schemaVars, collVars, opVars, rq, proj>>
  \/ \E c \in 1..MaxRelCalls :
       RelationRequestSent(c) /\ UNCHANGED <<schemaVars, collVars, opVars, rq, proj>>
  \/ \E c \in 1..MaxRelCalls :
       RelationRequestApplied(c) /\ UNCHANGED <<schemaVars, collVars, opVars, rq, proj>>

InitRel ==
  /\ SchemaInit /\ storeSchema = 0 /\ CollInit /\ OpIdle
  /\ RelationInit /\ rq = IdleRewrite /\ proj = IdleProjection

SpecRel == InitRel /\ [][RelNext]_vars

ProjectNext ==
  \E mongoResults \in SeqsUpTo(MongoDocs, MaxResults) :
    ResultsMapped(mongoResults)
    /\ UNCHANGED <<schemaVars, collVars, opVars, rq, joinColl, relCalls, relLog>>

InitProject ==
  /\ SchemaInit /\ storeSchema = 0 /\ CollInit /\ OpIdle
  /\ ProjectionInit /\ rq = IdleRewrite /\ joinColl = <<>> /\ relCalls = <<>>
  /\ relLog = [e \in Edges |-> "none"]

SpecProject == InitProject /\ [][ProjectNext]_vars

(***************************************************************************)
(* Properties of the schema promise.                                       *)
(***************************************************************************)
Issued == {c \in Callers : callers[c].pc # "idle"}

\* The loads whose Schema.load has been called.
ReadsStarted == {p \in Loads : loadState[p] \in {"reading", "done"}}

\* The loads whose Schema.load has been called and has not resolved.
InFlight == {p \in Loads : loadState[p] = "reading"}

Resolved == {p \in Loads : loadState[p] = "done"}

\* The calls whose acceptor rejected the schema it was given.
Rejecting == {c \in Callers : callers[c].given # -1
                              /\ ~acceptor(callers[c].need, callers[c].given)}

\* C4: when two or more loadSchema calls with the default acceptor have been
\* issued and no load has resolved yet (and no deleteEverything has run), at
\* most one Schema.load has been performed for all of them.
C4_OneReadForConcurrentCalls ==
  (/\ Resolved = {}
   /\ wipes = 0
   /\ Cardinality(Issued) >= 2
   /\ \A c \in Issued : callers[c].need = returnsTrue)
  => Cardinality(ReadsStarted) <= 1

\* C5: in every reachable state at most one Schema.load is in flight.
C5_AtMostOneLoadInFlight == Cardinality(InFlight) <= 1

\* C6: once a load has resolved (and no deleteEverything has run and no
\* acceptor has rejected a schema), a loadSchema call with the default
\* acceptor starts no new load.
C6_ResolvedSchemaIsCached ==
  [][\A c \in Callers :
       (/\ Resolved # {}
        /\ wipes = 0
        /\ Rejecting = {}
        /\ callers[c].pc = "idle"
        /\ callers'[c].pc # "idle"
        /\ callers'[c].need = returnsTrue)
       => Created' = Created]_vars

\* C7: no loadSchema call starts more than one load; a call whose acceptor
\* rejected the schema it was given started exactly one load, after the
\* rejection, and returns what that load read, accepted or not.
C7_RejectionReloadsOnce ==
  \A c \in Callers :
    /\ Cardinality(callers[c].started) <= 1
    /\ c \in Rejecting =>
         /\ \E p \in Loads : callers[c].started = {p} /\ callers[c].awaits = p
         /\ callers[c].pc \in {"direct", "returned"}
         /\ callers[c].pc = "returned" =>
              callers[c].result = loadValue[callers[c].awaits]

\* C7 witness: a call returned a reloaded schema that its acceptor rejects too.
C7_Witness ==
  \E c \in Rejecting :
    /\ callers[c].pc = "returned"
    /\ ~acceptor(callers[c].need, callers[c].result)

(***************************************************************************)
(* Properties of MongoCollection.find.                                     *)
(***************************************************************************)
\* The store's message names a field the pattern can read: a non-empty run
\* of word characters.
NamesWordField(error) ==
  /\ error.hasField
  /\ error.field # <<>>
  /\ \A i \in 1..Len(error.field) : error.field[i] \in WordChars

MissingGeoIndex(error) ==
  /\ error.code = GeoIndexErrorCode
  /\ error.geoNear
  /\ NamesWordField(error)

\* C8: one find call issues at most two underlying finds and at most one
\* index creation; an index is created exactly when the first find failed
\* with the missing-geo-index error naming a field, and is a 2d index on
\* that field; the second find is issued only after the index creation has
\* completed, with the query and options of the first.
C8_GeoIndexRetryOnce ==
  /\ Len(rawFinds) <= 2
  /\ Len(indexes) <= 1
  /\ Len(indexes) = 1 <=>
       (storeErrors # <<>> /\ MissingGeoIndex(storeErrors[1]))
  /\ Len(indexes) = 1 =>
       indexes[1] = [key |-> storeErrors[1].field, type |-> "2d"]
  /\ Len(rawFinds) = 2 =>
       /\ Len(indexes) = 1
       /\ mc.indexed
       /\ rawFinds[2] = rawFinds[1]
       /\ rawFinds[1] = [query |-> mc.query, options |-> mc.options]
  /\ (mc.indexed /\ Len(storeErrors) = 1) => Len(rawFinds) = 2

\* C8 witness: a call resolved by its retry, after creating the index.
C8_Witness ==
  /\ mc.pc = "resolved"
  /\ Len(rawFinds) = 2
  /\ Len(indexes) = 1
  /\ Len(storeErrors[1].field) = 2

\* C9: a failed find call fails with the error object the store answered
\* last; when the first failure is not a missing-geo-index error naming a
\* field no index is created; a failed retry or a failed index creation is
\* followed by no further find.
C9_StoreErrorUnchanged ==
  mc.pc = "rejected" =>
    /\ storeErrors # <<>>
    /\ mc.error = storeErrors[Len(storeErrors)]
    /\ ~MissingGeoIndex(storeErrors[1]) => indexes = <<>>
    /\ Len(rawFinds) <= 2
    /\ (Len(storeErrors) = 2 /\ ~mc.indexed) => Len(rawFinds) = 1

(***************************************************************************)
(* Properties of the operations.                                           *)
(***************************************************************************)
Sent(fn) == \E i \in 1..Len(adapterCalls) : adapterCalls[i].fn = fn

\* The call is made by a caller with an acl key whom validatePermission refuses.
PermissionFails ==
  /\ op.kind # "none"
  /\ ~isMaster(op.options)
  /\ ~validatePermission(aclGroupOf(op.options), operationOf(op))

\* C1: an operation of a caller with an acl key whom validatePermission
\* refuses issues no join-collection read or write, no find, count, insert,
\* findOneAndUpdate or remove and no index creation, and once the schema is
\* loaded it has failed with the permission error.
C1_DeniedCallIssuesNothing ==
  PermissionFails =>
    /\ adapterCalls = <<>>
    /\ rawFinds = <<>>
    /\ indexes = <<>>
    /\ op.edges = <<>>
    /\ \/ op.pc = "loadSchema"
       \/ op.pc = "rejected" /\ op.error = "PermissionDenied"

\* C1 witness: a refused update whose payload holds relation operators.
C1_Witness ==
  /\ PermissionFails
  /\ op.pc = "rejected"
  /\ op.kind = "update"
  /\ op.payload.likes.__op = "Batch"

\* The write-permission disjunction for a group.
WritePerms(aclGroup) ==
  <<PermClause("_wperm", "$exists", "false")>>
  \o [i \in 1..Len(aclGroup) |-> PermClause("_wperm", "$in", aclGroup[i])]

MayWrite(doc, aclGroup) ==
  ~doc._wperm.present \/ doc._wperm.ids \cap Range(aclGroup) # {}

\* C2: every update and destroy of a caller with an acl key (a list, an
\* empty list or null) sends the translated query conjoined with the
\* write-permission disjunction, and changes or removes no document whose
\* _wperm is present and holds none of the caller's ids.
C2_WritePermissionConjoined ==
  (/\ op.kind \in {"update", "destroy"}
   /\ ~isMaster(op.options)
   /\ Sent("findOneAndUpdate") \/ Sent("remove"))
  => /\ op.where = [and |-> TRUE, base |-> transformWhere(op.query),
                    orParts |-> WritePerms(aclGroupOf(op.options))]
     /\ \A doc \in op.matched : MayWrite(doc, aclGroupOf(op.options))

\* The read-permission disjunction for a group.
ReadPerms(aclGroup) ==
  <<PermClause("_rperm", "$exists", "false"), PermClause("_rperm", "$in", "*")>>
  \o [i \in 1..Len(aclGroup) |-> PermClause("_rperm", "$in", aclGroup[i])]

MayRead(doc, aclGroup) ==
  \/ ~doc._rperm.present
  \/ "*" \in doc._rperm.ids
  \/ doc._rperm.ids \cap Range(aclGroup) # {}

\* C3: a find (list or count) of a caller with an acl key sends the
\* translated query conjoined with the read-permission disjunction, and every
\* document returned or counted has _rperm absent, holding "*" or holding
\* one of the caller's ids; a find of a caller without acl key sends the
\* translated query alone.
C3_ReadPermissionConjoined ==
  (op.kind = "find" /\ (Sent("find") \/ Sent("count")))
  => IF isMaster(op.options)
       THEN op.where = [and |-> FALSE, base |-> transformWhere(op.query),
                        orParts |-> <<>>]
       ELSE /\ op.where = [and |-> TRUE, base |-> transformWhere(op.query),
                           orParts |-> ReadPerms(aclGroupOf(op.options))]
            /\ \A doc \in op.matched : MayRead(doc, aclGroupOf(op.options))

\* C3 witness: a find with acl: null has returned the public document and
\* left out one the query selects and _rperm restricts.
C3_Witness ==
  /\ op.kind = "find"
  /\ op.pc = "resolved"
  /\ op.result = "objects"
  /\ op.options.acl.t = "null"
  /\ op.matched # {}
  /\ \E doc \in db \ op.matched : BaseMatches(doc, op.where.base)

\* An update whose findOneAndUpdate has answered.
UpdateAnswered ==
  /\ op.kind = "update"
  /\ Sent("findOneAndUpdate")
  /\ op.pc \in {"resolved", "rejected"}

\* C10 as stated: an update that matched no document fails with
\* ObjectNotFound, except on _Session, where it succeeds.
C10_ZeroMatchToleratedOnSession ==
  (UpdateAnswered /\ op.matched = {})
  => IF op.className = "_Session"
       THEN op.pc = "resolved"
       ELSE op.pc = "rejected" /\ op.error = "ObjectNotFound"

\* C10 amended: an update that matched no document fails with ObjectNotFound
\* on every class, _Session included; one that matched a document succeeds.
C10_ZeroMatchFailsOnEveryClass ==
  UpdateAnswered =>
    IF op.matched = {}
      THEN op.pc = "rejected" /\ op.error = "ObjectNotFound"
      ELSE op.pc = "resolved"

\* C10 witness: an update on _Session failed with ObjectNotFound because the
\* write-permission clause left no match.
C10_Witness ==
  /\ UpdateAnswered
  /\ op.className = "_Session"
  /\ op.matched = {}
  /\ op.error = "ObjectNotFound"
  /\ \E doc \in db : BaseMatches(doc, op.where.base)

\* A destroy whose remove has answered.
DestroyAnswered ==
  /\ op.kind = "destroy"
  /\ Sent("remove")
  /\ op.pc \in {"resolved", "rejected"}

PayloadKeys == {"title", "count", "likes"}

\* The operator is AddRelation or RemoveRelation, or a Batch holding one at
\* any depth.
RECURSIVE ContainsRelationOp(_)
ContainsRelationOp(o) ==
  \/ o.__op = "AddRelation"
  \/ o.__op = "RemoveRelation"
  \/ /\ o.__op = "Batch"
     /\ \E i \in 1..Len(o.ops) : ContainsRelationOp(o.ops[i])

\* The primary store operation of an update or a create has been issued.
PrimarySent == Sent("findOneAndUpdate") \/ Sent("insert")

\* C15: in update and create the relation extraction removes from the payload
\* every key whose operator is or holds (in a Batch, at any depth) an
\* AddRelation or RemoveRelation and leaves the other keys as they were, and
\* the payload translated for the store holds no such operator.
C15_RelationOpsNeverTranslated ==
  [][/\ (op.pc = "validated" /\ op'.pc = "edges") =>
          \A key \in PayloadKeys :
            op'.payload[key] = IF ContainsRelationOp(op.payload[key])
                                 THEN NoOp ELSE op.payload[key]
     /\ (op.kind \in {"update", "create"} /\ op.pc = "collection" /\ op'.pc = "store") =>
          /\ \A key \in PayloadKeys : ~ContainsRelationOp(op.payload[key])
          /\ op'.payload = op.payload]_vars

\* C15 witness: an update whose payload held a Batch with a RemoveRelation in
\* an inner Batch, and a Set on another key, has sent its findOneAndUpdate.
C15_Witness ==
  /\ op.kind = "update"
  /\ Sent("findOneAndUpdate")
  /\ \E i \in 1..Len(op.edges) : op.edges[i].fn = "removeRelation"
  /\ \E i \in 1..Len(op.edges) : op.edges[i].fn = "addRelation"
  /\ op.payload.likes = NoOp

\* C17: when the primary store operation of an update or a create is issued
\* every scheduled edge mutation has completed, and when one of them has
\* failed the operation fails and the primary operation is never issued.
C17_EdgesCompleteBeforePrimary ==
  /\ (op.kind \in {"update", "create"} /\ PrimarySent) =>
       \A i \in 1..Len(op.edges) : op.edgeState[i] = "done"
  /\ (\E i \in 1..Len(op.edges) : op.edgeState[i] = "failed") =>
       /\ op.pc = "rejected"
       /\ ~PrimarySent

\* C17 witness: an update with two edge mutations has resolved.
C17_Witness ==
  /\ op.kind = "update"
  /\ op.pc = "resolved"
  /\ Len(op.edges) >= 2

\* C18: after an update that failed the join collections and the class's
\* collection hold what they held before the call.
C18_FailedUpdateChangesNothing ==
  (op.kind = "update" /\ op.pc = "rejected") =>
    /\ joins = LikesRows
    /\ \A doc \in db : doc.title = "old" /\ doc.count \in {0, 3}

\* The document the update changed, as it is stored now.
StoredNow(doc) == CHOOSE d \in db : d.objectId = doc.objectId

\* C19: a resolved update returns an object with exactly the keys its $inc
\* targets, each with the value the stored document has after the update;
\* without an increment the object is empty.
C19_ResponseHoldsIncrementedValues ==
  (op.kind = "update" /\ op.pc = "resolved") =>
    \A doc \in op.matched :
      op.response = IF op.mongoUpdate.inc # 0
                      THEN {<<"count", StoredNow(doc).count>>}
                      ELSE {}

\* C19 witness: an update with an increment has resolved and returned the
\* count, which is neither the amount nor the count before the update.
C19_Witness ==
  /\ op.kind = "update"
  /\ op.pc = "resolved"
  /\ op.mongoUpdate.inc # 0
  /\ \E doc \in op.matched :
       /\ op.response = {<<"count", doc.count + op.mongoUpdate.inc>>}
       /\ doc.count + op.mongoUpdate.inc # op.mongoUpdate.inc

(***************************************************************************)
(* Properties of the rewriting of a query tree.                            *)
(***************************************************************************)
\* Some node of the tree holds a $relatedTo clause.
RECURSIVE HasRelatedTo(_)
HasRelatedTo(query) ==
  /\ query.t = "object"
  /\ \/ query.relatedTo # NoRelatedTo
     \/ \E i \in 1..Len(query.or) : HasRelatedTo(query.or[i])
     \/ \E i \in 1..Len(query.and) : HasRelatedTo(query.and[i])

\* The tree is built with $or lists alone.
RECURSIVE OnlyOr(_)
OnlyOr(query) ==
  /\ ~query.hasAnd
  /\ \A i \in 1..Len(query.or) : OnlyOr(query.or[i])

\* C12: after reduceRelationKeys resolved on a query nested with $or lists,
\* where any node, one with an $or list included, may hold $relatedTo, no
\* node holds $relatedTo; applying it again changes nothing.
C12_NoRelatedToRemains ==
  [][(rq'.pc = "relatedTo" /\ OnlyOr(rq.given)) =>
       /\ ~HasRelatedTo(rq'.query)
       /\ rq.pc = "relatedTo" => rq'.query = rq.query]_vars

\* Some node of the tree holds an $in list or a pointer on a key the schema
\* types as a relation.
RECURSIVE HasRelationPredicate(_, _, _)
HasRelationPredicate(query, className, schema) ==
  /\ query.t = "object"
  /\ \/ /\ query.likes.t \in {"pointer", "in"}
        /\ getExpectedType(schema, className, "likes") = "relation<_User>"
     \/ \E i \in 1..Len(query.or) : HasRelationPredicate(query.or[i], className, schema)
     \/ \E i \in 1..Len(query.and) : HasRelationPredicate(query.and[i], className, schema)

\* C13: the query find hands to transformWhere holds, at no node of a tree
\* built with $and and $or, an $in list or a pointer on a key the schema types
\* as a relation.
C13_NoRelationPredicateTranslated ==
  rq.pc = "transformWhere" => ~HasRelationPredicate(rq.handed, rq.className, rq.schema)

\* The documents of the join collection of (className, key) owned by owningId.
EdgesOf(rows, relatedTo) ==
  {i \in 1..Len(rows) :
     /\ rows[i].collection = joinTableName(relatedTo.className, relatedTo.key)
     /\ rows[i].owningId = relatedTo.objectId}

\* At every node reduceRelationKeys reaches (the query, and the entries of
\* $or lists from there) that holds $relatedTo and no $or list, the clause is
\* replaced by objectId: {$in: L}, L being the previous $in list followed by
\* the relatedId of every edge of the owner.
RECURSIVE RelatedToReplaced(_, _, _)
RelatedToReplaced(before, after, rows) ==
  IF before.t # "object" THEN TRUE
  ELSE IF before.hasOr
    THEN /\ after.hasOr
         /\ Len(after.or) = Len(before.or)
         /\ \A i \in 1..Len(before.or) : RelatedToReplaced(before.or[i], after.or[i], rows)
  ELSE before.relatedTo # NoRelatedTo =>
         LET prev == IF before.objectId.t = "in" THEN before.objectId.in ELSE <<>>
             edges == EdgesOf(rows, before.relatedTo)
             L == after.objectId.in
         IN /\ after.relatedTo = NoRelatedTo
            /\ after.objectId.t = "in"
            /\ Len(L) = Len(prev) + Cardinality(edges)
            /\ SubSeq(L, 1, Len(prev)) = prev
            /\ {L[j] : j \in Len(prev) + 1..Len(L)} = {rows[i].relatedId : i \in edges}
            /\ after.likes = before.likes
            /\ after.title = before.title

\* The query and the join collection of the example.
ExampleQuery == QueryNode(NoObjectId, RelatedTo("Post", "p1", "likes"), NoPointer, "")
ExampleEdges ==
  <<JoinDoc("Post", "likes", "p1", "u1"), JoinDoc("Post", "likes", "p1", "u2")>>

Copies(docs, edge) == Cardinality({i \in 1..Len(docs) : docs[i] = edge})

C20_UserCredentialsStripped ==
  proj.pc = "resolved" =>
    /\ Len(proj.objects) = Len(proj.mongoResults)
    /\ \A i \in 1..Len(proj.objects) :
         LET object == proj.objects[i]
             whole == transformUntransformObject(proj.mongoResults[i])
         IN IF /\ proj.className = "_User"
               /\ hasAclKey(proj.options)
               /\ whole.objectId \notin Range(proj.options.acl.list)
              THEN /\ "authData" \notin DOMAIN object
                   /\ "sessionToken" \notin DOMAIN object
                   /\ \A k \in DOMAIN whole \ {"authData", "sessionToken"} :
                        k \in DOMAIN object /\ object[k] = whole[k]
              ELSE object = whole

\* C20 witness: a caller whose group holds u1 found the _User records u1 and
\* u2: u1 keeps its credentials, u2 has lost them.
C20_Witness ==
  /\ proj.pc = "resolved"
  /\ proj.className = "_User"
  /\ "u1" \in Range(proj.options.acl.list)
  /\ \E i, j \in 1..Len(proj.objects) :
       /\ proj.objects[i].objectId = "u1"
       /\ "sessionToken" \in DOMAIN proj.objects[i]
       /\ proj.objects[j].objectId = "u2"
       /\ "_session_token" \in DOMAIN proj.mongoResults[j]
       /\ "sessionToken" \notin DOMAIN proj.objects[j]

(***************************************************************************)
(* The frame of reduceInRelation.                                          *)
(***************************************************************************)
\* after is before but for the relation-typed predicate of a node and the
\* $in list of that node's objectId: every node is still a query object, its
\* $or and $and lists have the entries they had, and $relatedTo, title, a
\* predicate on a key that is no relation and an objectId that got no ids are
\* as they were.
RECURSIVE OnlyRelationPredicatesChanged(_, _, _, _)
OnlyRelationPredicatesChanged(before, after, className, schema) ==
  LET relation == /\ before.likes.t \in {"pointer", "in"}
                  /\ getExpectedType(schema, className, "likes") = "relation<_User>"
  IN /\ after.t = before.t
     /\ after.hasOr = before.hasOr
     /\ after.hasAnd = before.hasAnd
     /\ after.and = before.and
     /\ after.relatedTo = before.relatedTo
     /\ after.title = before.title
     /\ Len(after.or) = Len(before.or)
     /\ \A i \in 1..Len(before.or) :
          OnlyRelationPredicatesChanged(before.or[i], after.or[i], className, schema)
     /\ after.likes \in {before.likes} \cup (IF relation THEN {NoPointer} ELSE {})
     /\ IF after.likes = before.likes
          THEN after.objectId = before.objectId
          ELSE /\ after.objectId.t = (IF before.objectId.t = "absent"
                                        THEN "in" ELSE before.objectId.t)
               /\ after.objectId.s = before.objectId.s
               /\ SubSeq(after.objectId.in, 1, Len(before.objectId.in))
                    = before.objectId.in

\* C21: reduceInRelation changes only the relation-typed predicates and the
\* objectId.$in constraint of the node that held them; every other predicate
\* and the shape of every $or list (each entry stays a sub-query object) is
\* after the call what it was before, at any depth of $or nesting, an $or
\* branch that holds an $or included.
C21_OnlyRelationPredicatesChange ==
  [][(rq.pc = "relatedTo" /\ rq'.pc = "inRelation") =>
       OnlyRelationPredicatesChanged(rq.query, rq'.query, rq.className, rq.schema)]_vars

(***************************************************************************)
(* What loadSchema returns.                                                *)
(***************************************************************************)
\* C22: a schema loadSchema(acceptor) returns either satisfies the acceptor
\* or was read by a load the call itself started (so not before the call was
\* issued); no caller gets a schema its acceptor rejects from a load that was
\* started before its call.
C22_ReturnedSchemaAcceptedOrFresh ==
  \A c \in Callers :
    callers[c].pc = "returned" =>
      \/ acceptor(callers[c].need, callers[c].result)
      \/ /\ callers[c].awaits \in callers[c].started
         /\ loadState[callers[c].awaits] = "done"
         /\ callers[c].result = loadValue[callers[c].awaits]

\* C22 witness: a call found a load of an earlier call, its acceptor rejected
\* that load's schema, and the reload the call started read a schema the
\* acceptor accepts.
C22_Witness ==
  \E c \in Callers :
    /\ callers[c].pc = "returned"
    /\ callers[c].given # -1
    /\ ~acceptor(callers[c].need, callers[c].given)
    /\ callers[c].awaits \in callers[c].started
    /\ acceptor(callers[c].need, callers[c].result)

====
